---- MODULE Spec2Model ----
(***************************************************************************)
(* Model of pyalgotrading/algobulls/api.py: the AlgoBullsAPI client.       *)
(*                                                                         *)
(* One client object is shared by the threads of Threads.  A thread runs   *)
(* one facade operation at a time; pc[t] is its position inside the        *)
(* operation.  The places where a thread can be pre-empted are the ones    *)
(* around the blocking network calls: the test of the key cache, the       *)
(* registration round trip with the store that follows it, the read of     *)
(* the stored key and the operation's own round trip.                      *)
(*                                                                         *)
(*   Spec          one thread, every facade operation: the sequential      *)
(*                 program.                                                *)
(*   SpecPairs     one thread, key-resolving operations on two strategies  *)
(*                 in the three trading types.                             *)
(*   SpecConc      two threads running key-resolving operations on one     *)
(*                 client.                                                 *)
(*   SpecDispatch  direct calls of _send_request with every combination    *)
(*                 of method, URL, flag, status code and body.             *)
(***************************************************************************)
EXTENDS Integers, Sequences, FiniteSets, TLC

VARIABLES
    key_backtesting,   \* self.__key_backtesting: strategy code -> key
    key_papertrading,  \* self.__key_papertrading
    key_realtrading,   \* self.__key_realtrading
    registered,        \* per pair: how the platform answered its last registration
    pc,                \* pc[t]: position of thread t inside its operation
    call,              \* call[t]: the operation thread t runs, with its arguments
    key,               \* key[t]: the local variable `key` of the operation
    sent,              \* sent[t]: round trips of the current invocation, in order
    outcome            \* outcome[t]: what the invocation gave its caller

vars == <<key_backtesting, key_papertrading, key_realtrading, registered,
          pc, call, key, sent, outcome>>

\* -------------------------------------------------------------------------
\* Input sets

Threads == {"t1", "t2"}
MainThread == "t1"
Strategies == {"S1", "S2"}
Keys == {"k1", "k2"}

\* Python's None; f-strings render it as the text None.
None == "None"

SERVER_ENDPOINT == "https://api.algobulls.com/"
OtherBaseUrl == "http://localhost:8000/"
Location == "India"

BACKTESTING == "BACKTESTING"
PAPERTRADING == "PAPERTRADING"
REALTRADING == "REALTRADING"
TradingType == {BACKTESTING, PAPERTRADING, REALTRADING}

PNL_TABLE == "PNL_TABLE"
ORDER_HISTORY == "ORDER_HISTORY"
TradingReportType == {PNL_TABLE, ORDER_HISTORY}

\* Response bodies as the platform sends them (raw text).
BodyKey1 == "{\"key\": \"k1\"}"
BodyKey2 == "{\"key\": \"k2\"}"
BodyNoKey == "{\"message\": \"ok\"}"
BodyList == "[]"
BodyText == "<html>Bad Gateway</html>"
BodyEmpty == ""
RawBodies == {BodyKey1, BodyKey2, BodyNoKey, BodyList, BodyText, BodyEmpty}

ClassifiedCodes == {400, 401, 402, 403, 404, 500, 504}
UnknownCodes == {201, 204, 503}
StatusCodes == {200} \cup ClassifiedCodes \cup UnknownCodes

\* Every answer of the transport.
AllResponses == [status_code : StatusCodes, raw : RawBodies]
\* Answers to a registration request: with 200 every kind of body, with each
\* classified code and one unknown code an error page.
RegistrationResponses ==
    {r \in AllResponses :
        \/ r.status_code = 200 /\ r.raw # BodyEmpty
        \/ r.status_code \in ClassifiedCodes \cup {201} /\ r.raw = BodyText}
\* Answers to an operation's request: the same, with one JSON and one
\* non-JSON body for 200.
OperationResponses ==
    {r \in RegistrationResponses :
        r.status_code = 200 => r.raw \in {BodyNoKey, BodyText}}
\* Answers where the runs are about the cache and not about the errors.
FewRegistrationResponses ==
    {r \in AllResponses :
        \/ r.status_code = 200 /\ r.raw \in {BodyKey1, BodyKey2}
        \/ r.status_code = 403 /\ r.raw = BodyText}
FewOperationResponses ==
    {r \in AllResponses :
        \/ r.status_code = 200 /\ r.raw = BodyNoKey
        \/ r.status_code = 500 /\ r.raw = BodyText}

\* -------------------------------------------------------------------------
\* Python values

\* The result of decoding a body, seen through what the client reads of it:
\* its type and, for a dict, d.get('key') and d.get('response').
JsonDict(k, response) == [type |-> "dict", key |-> k, response |-> response]
JsonList == [type |-> "list", key |-> None, response |-> None]
NoneValue == [type |-> "NoneType", key |-> None, response |-> None]

JSONDecodeError == "JSONDecodeError"
AttributeError == "AttributeError"

\* The bodies r.json() decodes; on the others it raises JSONDecodeError.
IsJson(raw) == raw \in {BodyKey1, BodyKey2, BodyNoKey, BodyList}

\* r.json() of a body that is JSON.
r_json(raw) ==
    CASE raw = BodyKey1 -> JsonDict("k1", None)
      [] raw = BodyKey2 -> JsonDict("k2", None)
      [] raw = BodyNoKey -> JsonDict(None, None)
      [] raw = BodyList -> JsonList

\* utils.func.get_raw_response(r): the body text as received.
get_raw_response(r) == r.raw

\* What a call gives its caller: a returned value or a raised exception.
\* shape "tuple" is the pair (with_key, value) of set_strategy_config.
Returned(v) ==
    [kind |-> "return", shape |-> "value", with_key |-> None, value |-> v,
     exc |-> None, method |-> None, url |-> None, status_code |-> 0, response |-> None]
ReturnedTuple(k, v) ==
    [kind |-> "return", shape |-> "tuple", with_key |-> k, value |-> v,
     exc |-> None, method |-> None, url |-> None, status_code |-> 0, response |-> None]
\* A returned session key (the str or None that __fetch_key returns).
ReturnedKey(k) ==
    [kind |-> "return", shape |-> "key", with_key |-> k, value |-> NoneValue,
     exc |-> None, method |-> None, url |-> None, status_code |-> 0, response |-> None]
\* An AlgoBullsAPI*Exception(method=, url=, response=, status_code=).
Raised(exc, method, url, response, status_code) ==
    [kind |-> "raise", shape |-> None, with_key |-> None, value |-> NoneValue,
     exc |-> exc, method |-> method, url |-> url, status_code |-> status_code,
     response |-> response]
\* A built-in exception, which carries no request.
RaisedBuiltin(exc) == Raised(exc, None, None, None, 0)
NoOutcome ==
    [kind |-> "none", shape |-> None, with_key |-> None, value |-> NoneValue,
     exc |-> None, method |-> None, url |-> None, status_code |-> 0, response |-> None]

AlgoBullsAPIBaseException == "AlgoBullsAPIBaseException"
AlgoBullsAPIBadRequestException == "AlgoBullsAPIBadRequestException"
AlgoBullsAPIUnauthorizedErrorException == "AlgoBullsAPIUnauthorizedErrorException"
AlgoBullsAPIInsufficientBalanceErrorException == "AlgoBullsAPIInsufficientBalanceErrorException"
AlgoBullsAPIForbiddenErrorException == "AlgoBullsAPIForbiddenErrorException"
AlgoBullsAPIResourceNotFoundErrorException == "AlgoBullsAPIResourceNotFoundErrorException"
AlgoBullsAPIInternalServerErrorException == "AlgoBullsAPIInternalServerErrorException"
AlgoBullsAPIGatewayTimeoutErrorException == "AlgoBullsAPIGatewayTimeoutErrorException"

\* -------------------------------------------------------------------------
\* _send_request

\* Two branches of the elif chain raising each other's class.
ExceptionOfSwapped(status_code) ==
    CASE status_code = 400 -> AlgoBullsAPIBadRequestException
      [] status_code = 401 -> AlgoBullsAPIUnauthorizedErrorException
      [] status_code = 402 -> AlgoBullsAPIForbiddenErrorException
      [] status_code = 403 -> AlgoBullsAPIInsufficientBalanceErrorException
      [] status_code = 404 -> AlgoBullsAPIResourceNotFoundErrorException
      [] status_code = 500 -> AlgoBullsAPIInternalServerErrorException
      [] status_code = 504 -> AlgoBullsAPIGatewayTimeoutErrorException
      [] OTHER -> AlgoBullsAPIBaseException

\* The exception class of the elif chain, by status code.
ExceptionOf(status_code) ==
    CASE status_code = 400 -> AlgoBullsAPIBadRequestException
      [] status_code = 401 -> AlgoBullsAPIUnauthorizedErrorException
      [] status_code = 402 -> AlgoBullsAPIInsufficientBalanceErrorException
      [] status_code = 403 -> AlgoBullsAPIForbiddenErrorException
      [] status_code = 404 -> AlgoBullsAPIResourceNotFoundErrorException
      [] status_code = 500 -> AlgoBullsAPIInternalServerErrorException
      [] status_code = 504 -> AlgoBullsAPIGatewayTimeoutErrorException
      [] OTHER -> AlgoBullsAPIBaseException

\* The value or exception of r.json() as an outcome.
ReturnJson(r) ==
    IF IsJson(r.raw)
    THEN Returned(r_json(r.raw))
    ELSE RaisedBuiltin(JSONDecodeError)

\* A _send_request whose 200 branch has no try around r.json().
send_request_unguarded(method, endpoint, base_url, raise_exception_unknown_status_code, r) ==
    LET url == base_url \o endpoint IN
    IF r.status_code = 200
    THEN ReturnJson(r)
    ELSE IF r.status_code \in ClassifiedCodes
    THEN Raised(ExceptionOf(r.status_code), method, url, get_raw_response(r),
                r.status_code)
    ELSE IF raise_exception_unknown_status_code
    THEN Raised(AlgoBullsAPIBaseException, method, url, get_raw_response(r),
                r.status_code)
    ELSE ReturnJson(r)

\* _send_request(method, endpoint, base_url, ..., raise_exception_unknown_status_code)
\* once requests.request has answered r.
send_request(method, endpoint, base_url, raise_exception_unknown_status_code, r) ==
    LET url == base_url \o endpoint IN
    IF r.status_code = 200
    THEN IF IsJson(r.raw)
         THEN Returned(r_json(r.raw))
         ELSE Returned(JsonDict(None, get_raw_response(r)))
    ELSE IF r.status_code \in ClassifiedCodes
    THEN Raised(ExceptionOf(r.status_code), method, url, get_raw_response(r),
                r.status_code)
    ELSE IF raise_exception_unknown_status_code
    THEN Raised(AlgoBullsAPIBaseException, method, url, get_raw_response(r),
                r.status_code)
    ELSE ReturnJson(r)

\* -------------------------------------------------------------------------
\* The key cache

\* dict.get(k): the value stored under k, None when there is none.
DictGet(d, k) == IF k \in DOMAIN d THEN d[k] ELSE None
\* d[k] = v
DictSet(d, k, v) == [x \in (DOMAIN d) \cup {k} |-> IF x = k THEN v ELSE d[x]]

\* A __get_key that registers on every call.
CacheMissAlways(d, k) == TRUE

\* __get_key's test: self.__key_<mode>.get(strategy_code) is None.
CacheMiss(d, k) == DictGet(d, k) = None

\* The dict __get_key uses for a trading type.
KeyDict(trading_type) ==
    CASE trading_type = BACKTESTING -> key_backtesting
      [] trading_type = PAPERTRADING -> key_papertrading
      [] trading_type = REALTRADING -> key_realtrading

\* The three dicts after self.__key_<mode>[strategy_code] = k.
StoreKey(trading_type, strategy_code, k) ==
    CASE trading_type = BACKTESTING ->
            /\ key_backtesting' = DictSet(key_backtesting, strategy_code, k)
            /\ UNCHANGED <<key_papertrading, key_realtrading>>
      [] trading_type = PAPERTRADING ->
            /\ key_papertrading' = DictSet(key_papertrading, strategy_code, k)
            /\ UNCHANGED <<key_backtesting, key_realtrading>>
      [] trading_type = REALTRADING ->
            /\ key_realtrading' = DictSet(key_realtrading, strategy_code, k)
            /\ UNCHANGED <<key_backtesting, key_papertrading>>

caches == <<key_backtesting, key_papertrading, key_realtrading>>

\* The verbs of two branches exchanged.
FetchKeyMethodSwapped(trading_type) ==
    CASE trading_type = REALTRADING -> "post"
      [] trading_type = PAPERTRADING -> "patch"
      [] trading_type = BACKTESTING -> "put"

\* The HTTP verb __fetch_key registers a trading type with.
FetchKeyMethod(trading_type) ==
    CASE trading_type = REALTRADING -> "post"
      [] trading_type = PAPERTRADING -> "put"
      [] trading_type = BACKTESTING -> "patch"

RegistrationEndpoint == "v2/portfolio/strategy"

\* A request as handed to requests.request.
RequestTo(base_url, method, endpoint, json_data, params, requires_authorization) ==
    [method |-> method, endpoint |-> endpoint, base_url |-> base_url,
     url |-> base_url \o endpoint, json_data |-> json_data, params |-> params,
     requires_authorization |-> requires_authorization]
\* A request to the default base_url.
Request(method, endpoint, json_data, params, requires_authorization) ==
    RequestTo(SERVER_ENDPOINT, method, endpoint, json_data, params,
              requires_authorization)

\* The registration request of __fetch_key.
FetchKeyRequest(strategy_code, trading_type) ==
    Request(FetchKeyMethod(trading_type), RegistrationEndpoint,
            [strategyId |-> strategy_code, tradingType |-> trading_type],
            None, TRUE)

\* A __fetch_key that catches the error and returns no key.
fetch_key_quiet(strategy_code, trading_type, r) ==
    LET response == send_request(FetchKeyMethod(trading_type), RegistrationEndpoint,
                                 SERVER_ENDPOINT, TRUE, r)
    IN  IF response.kind = "raise" \/ response.value.type # "dict"
        THEN ReturnedKey(None)
        ELSE ReturnedKey(response.value.key)

\* __fetch_key once the platform has answered r: the key, or an exception.
fetch_key(strategy_code, trading_type, r) ==
    LET response == send_request(FetchKeyMethod(trading_type), RegistrationEndpoint,
                                 SERVER_ENDPOINT, TRUE, r)
    IN  IF response.kind = "raise" THEN response
        ELSE IF response.value.type # "dict" THEN RaisedBuiltin(AttributeError)
        ELSE ReturnedKey(response.value.key)

\* -------------------------------------------------------------------------
\* The facade operations

KeyOps ==
    {"set_strategy_config", "start_strategy_algotrading", "stop_strategy_algotrading",
     "get_job_status", "get_logs", "get_reports"}
StrategyOps == {"update_strategy", "get_strategy_details", "delete_previous_trades"}
NoArgOps == {"create_strategy", "get_all_strategies", "search_instrument"}
FacadeOps == KeyOps \cup StrategyOps \cup NoArgOps
SendRequestOp == "_send_request"

\* update_strategy written with create_strategy's try.
SwallowingOpsWithUpdate ==
    {"create_strategy", "update_strategy", "start_strategy_algotrading",
     "stop_strategy_algotrading"}

\* The operations whose body is a try with an except clause.
SwallowingOps ==
    {"create_strategy", "start_strategy_algotrading", "stop_strategy_algotrading"}
\* An except clause that names one class too many.
SwallowedExceptionsAndNotFound ==
    {AlgoBullsAPIForbiddenErrorException, AlgoBullsAPIInsufficientBalanceErrorException,
     AlgoBullsAPIResourceNotFoundErrorException}

\* The exception classes those except clauses name.
SwallowedExceptions ==
    {AlgoBullsAPIForbiddenErrorException, AlgoBullsAPIInsufficientBalanceErrorException}

\* self.page_size
page_size == 1000

\* A call of a facade operation with its arguments (None: not an argument of it).
Invocation(op, strategy_code, trading_type, report_type) ==
    [op |-> op, strategy_code |-> strategy_code, trading_type |-> trading_type,
     report_type |-> report_type, method |-> None, endpoint |-> None,
     base_url |-> SERVER_ENDPOINT, raise_exception_unknown_status_code |-> TRUE]
\* A direct call of _send_request.
DirectInvocation(method, endpoint, base_url, raise_exception_unknown_status_code) ==
    [op |-> SendRequestOp, strategy_code |-> None, trading_type |-> None,
     report_type |-> None, method |-> method, endpoint |-> endpoint,
     base_url |-> base_url,
     raise_exception_unknown_status_code |-> raise_exception_unknown_status_code]
NoCall == Invocation(None, None, None, None)

StrategyCodeEndpoint == "v3/build/python/user/strategy/code"

\* map_trading_type_to_date_key
DateKey(trading_type) ==
    CASE trading_type = REALTRADING -> "liveDataTime"
      [] trading_type = PAPERTRADING -> "backDataTime"
      [] trading_type = BACKTESTING -> "backDataDate"

\* execute_config of start_strategy_algotrading (timestamps, lots and broker
\* details are passed through and left out).
ExecuteConfig(trading_type) ==
    [date_key |-> DateKey(trading_type),
     isLiveDataTestMode |-> trading_type \in {PAPERTRADING, REALTRADING},
     mode |-> trading_type,
     initialFundsVirtual |-> trading_type \in {PAPERTRADING, BACKTESTING}]

\* The request of start_strategy_algotrading.
StartRequest(c, k) ==
    Request("patch",
            IF c.trading_type \in {PAPERTRADING, BACKTESTING}
            THEN "v5/portfolio/strategies?isPythonBuild=true&isLive=false&location="
                 \o Location
            ELSE "v5/portfolio/strategies?isPythonBuild=true&isLive=true&location="
                 \o Location,
            [method |-> "update", newVal |-> 1, key |-> k,
             record |-> [status |-> 0, executeConfig |-> ExecuteConfig(c.trading_type)],
             dataIndex |-> "executeConfig"],
            None, TRUE)

\* The request of get_reports.
ReportsRequest(c) ==
    IF c.report_type = PNL_TABLE
    THEN Request("get", "v4/book/pl/data", None,
                 [pageSize |-> 0, isPythonBuild |-> "true",
                  strategyId |-> c.strategy_code,
                  isLive |-> (c.trading_type = REALTRADING),
                  filters |-> [tradingType |-> c.trading_type]], TRUE)
    ELSE Request("get", "v5/build/python/user/order/charts", None,
                 [strategyId |-> c.strategy_code, pageSize |-> page_size,
                  isLive |-> (c.trading_type = REALTRADING)], TRUE)

\* The request an operation hands to _send_request; k is its local `key`.
OpRequest(c, k) ==
    CASE c.op = "create_strategy" ->
            Request("post", StrategyCodeEndpoint, [strategyName |-> "name"], None, TRUE)
      [] c.op = "update_strategy" ->
            Request("put", StrategyCodeEndpoint,
                    [strategyId |-> c.strategy_code, strategyName |-> "name"], None, TRUE)
      [] c.op = "get_all_strategies" ->
            Request("options", StrategyCodeEndpoint, None, None, TRUE)
      [] c.op = "get_strategy_details" ->
            Request("get", StrategyCodeEndpoint \o "/" \o c.strategy_code, None,
                    <<>>, TRUE)
      [] c.op = "search_instrument" ->
            Request("get", "v4/portfolio/searchInstrument", None,
                    [search |-> "symbol", exchange |-> "NSE"], FALSE)
      [] c.op = "delete_previous_trades" ->
            Request("delete",
                    "v3/build/python/user/strategy/deleteAll?strategyId="
                    \o c.strategy_code, None, None, TRUE)
      [] c.op = "set_strategy_config" ->
            Request("post", "v4/portfolio/tweak/" \o k \o "?isPythonBuild=true",
                    [strategy_config |-> "config"], None, TRUE)
      [] c.op = "start_strategy_algotrading" -> StartRequest(c, k)
      [] c.op = "stop_strategy_algotrading" ->
            Request("patch", "v5/portfolio/strategies",
                    [method |-> "update", newVal |-> 0, key |-> k,
                     record |-> [status |-> 2], dataIndex |-> "executeConfig"],
                    None, TRUE)
      [] c.op = "get_job_status" ->
            Request("get", "v2/user/strategy/status", None, [key |-> k], TRUE)
      [] c.op = "get_logs" ->
            Request("post", "v4/user/strategy/logs",
                    [key |-> k, nextForwardToken |-> None, limit |-> page_size,
                     direction |-> "forward", type |-> "userLogs"],
                    [isPythonBuild |-> TRUE, isLive |-> (c.trading_type = REALTRADING)],
                    TRUE)
      [] c.op = "get_reports" -> ReportsRequest(c)
      [] c.op = SendRequestOp ->
            RequestTo(c.base_url, c.method, c.endpoint, None, None, TRUE)

\* The except clause copied into every operation.
except_clause_everywhere(op, ex) ==
    IF ex.exc \in SwallowedExceptions THEN Returned(NoneValue) ELSE ex

\* An exception leaving the body of operation op: the except clause of a
\* swallowing operation prints it and the operation returns None.
except_clause(op, ex) ==
    IF op \in SwallowingOps /\ ex.exc \in SwallowedExceptions
    THEN Returned(NoneValue)
    ELSE ex

\* What operation c gives its caller once _send_request has given `response`.
OpOutcome(c, k, response) ==
    IF response.kind = "raise" THEN except_clause(c.op, response)
    ELSE IF c.op = "set_strategy_config" THEN ReturnedTuple(k, response.value)
    ELSE response

\* -------------------------------------------------------------------------
\* State machine

Pairs == TradingType \X Strategies

\* The pair an invocation resolves a key for.
PairOf(c) == <<c.trading_type, c.strategy_code>>

\* A round trip: the request with the answer r it got.
RoundTrip(request, r) == [request |-> request, answer |-> r]

Init ==
    /\ key_backtesting = <<>>
    /\ key_papertrading = <<>>
    /\ key_realtrading = <<>>
    /\ registered = [p \in Pairs |-> "never"]
    /\ pc = [t \in Threads |-> "idle"]
    /\ call = [t \in Threads |-> NoCall]
    /\ key = [t \in Threads |-> None]
    /\ sent = [t \in Threads |-> <<>>]
    /\ outcome = [t \in Threads |-> NoOutcome]

\* Thread t enters operation c.
Enter(t, c) ==
    /\ pc[t] = "idle"
    /\ call' = [call EXCEPT ![t] = c]
    /\ pc' = [pc EXCEPT ![t] = IF c.op \in KeyOps THEN "get_key" ELSE "send"]
    /\ UNCHANGED <<caches, registered, key, sent, outcome>>

\* A caller invokes a key-resolving operation.
CallKeyOp(t, ops, strategies, modes) ==
    \E op \in ops, s \in strategies, m \in modes :
        \E rt \in (IF op = "get_reports" THEN TradingReportType ELSE {None}) :
            Enter(t, Invocation(op, s, m, rt))

\* A caller invokes an operation that resolves no key.
CallPlainOp(t) ==
    \/ \E op \in StrategyOps, s \in Strategies : Enter(t, Invocation(op, s, None, None))
    \/ \E op \in NoArgOps : Enter(t, Invocation(op, None, None, None))

\* A caller invokes _send_request itself.
CallSendRequest(t) ==
    \E method \in {"get", "post", "patch"},
       endpoint \in {RegistrationEndpoint, "v2/user/strategy/status"},
       base_url \in {SERVER_ENDPOINT, OtherBaseUrl},
       flag \in BOOLEAN :
        Enter(t, DirectInvocation(method, endpoint, base_url, flag))

\* An invocation that sends a failed request once more before giving up.
FinishOrRetry(t, out) ==
    /\ outcome' = [outcome EXCEPT ![t] = IF out.kind = "raise" /\ Len(sent[t]) < 2
                                         THEN outcome[t] ELSE out]
    /\ pc' = [pc EXCEPT ![t] = IF out.kind = "raise" /\ Len(sent[t]) < 2
                               THEN pc[t] ELSE "done"]

\* The invocation of thread t ends, giving the caller out.
Finish(t, out) ==
    /\ outcome' = [outcome EXCEPT ![t] = out]
    /\ pc' = [pc EXCEPT ![t] = "done"]

\* __get_key: the test of the cache; on a hit the key is returned at once.
GetKey(t) ==
    /\ pc[t] = "get_key"
    /\ LET c == call[t]
       IN  IF CacheMiss(KeyDict(c.trading_type), c.strategy_code)
           THEN /\ pc' = [pc EXCEPT ![t] = "fetch_key"]
                /\ UNCHANGED key
           ELSE /\ pc' = [pc EXCEPT ![t] = "send"]
                /\ key' = [key EXCEPT ![t] =
                              KeyDict(c.trading_type)[c.strategy_code]]
    /\ UNCHANGED <<caches, registered, call, sent, outcome>>

\* __get_key on a miss: __fetch_key's round trip, answered by some r of
\* responses, and the store of the key it returns.
FetchKey(t, responses) ==
    /\ pc[t] = "fetch_key"
    /\ \E r \in responses :
        LET c == call[t]
            fetched == fetch_key(c.strategy_code, c.trading_type, r)
        IN  /\ sent' = [sent EXCEPT ![t] =
                   Append(@, RoundTrip(FetchKeyRequest(c.strategy_code, c.trading_type), r))]
            /\ IF fetched.kind = "raise"
               THEN /\ Finish(t, except_clause(c.op, fetched))
                    /\ registered' = [registered EXCEPT ![PairOf(c)] = "failed"]
                    /\ UNCHANGED caches
               ELSE /\ StoreKey(c.trading_type, c.strategy_code, fetched.with_key)
                    /\ registered' = [registered EXCEPT ![PairOf(c)] = "answered"]
                    /\ pc' = [pc EXCEPT ![t] = "return_key"]
                    /\ UNCHANGED outcome
    /\ UNCHANGED <<call, key>>

\* __get_key on a miss: return self.__key_<mode>[strategy_code].
ReturnKey(t) ==
    /\ pc[t] = "return_key"
    /\ key' = [key EXCEPT ![t] = KeyDict(call[t].trading_type)[call[t].strategy_code]]
    /\ pc' = [pc EXCEPT ![t] = "send"]
    /\ UNCHANGED <<caches, registered, call, sent, outcome>>

\* The operation's own round trip, answered by some r of responses, and its
\* return or raise.
Send(t, responses) ==
    /\ pc[t] = "send"
    /\ \E r \in responses :
        LET c == call[t]
            request == OpRequest(c, key[t])
            response == send_request(request.method, request.endpoint, request.base_url,
                                     c.raise_exception_unknown_status_code, r)
        IN  /\ sent' = [sent EXCEPT ![t] = Append(@, RoundTrip(request, r))]
            /\ Finish(t, OpOutcome(c, key[t], response))
    /\ UNCHANGED <<caches, registered, call, key>>

\* The caller takes the result; the thread is free for the next call.
Return(t) ==
    /\ pc[t] = "done"
    /\ pc' = [pc EXCEPT ![t] = "idle"]
    /\ call' = [call EXCEPT ![t] = NoCall]
    /\ key' = [key EXCEPT ![t] = None]
    /\ sent' = [sent EXCEPT ![t] = <<>>]
    /\ outcome' = [outcome EXCEPT ![t] = NoOutcome]
    /\ UNCHANGED <<caches, registered>>

\* The sequential program: one thread, every facade operation, one strategy
\* in the three trading types.
Next ==
    \/ CallKeyOp(MainThread, KeyOps, {"S1"}, TradingType)
    \/ CallPlainOp(MainThread)
    \/ GetKey(MainThread)
    \/ FetchKey(MainThread, RegistrationResponses)
    \/ ReturnKey(MainThread)
    \/ Send(MainThread, OperationResponses)
    \/ Return(MainThread)

Spec == Init /\ [][Next]_vars

\* The sequential program on two strategies in the three trading types.
PairOps == {"get_job_status", "start_strategy_algotrading"}

NextPairs ==
    \/ CallKeyOp(MainThread, PairOps, Strategies, TradingType)
    \/ GetKey(MainThread)
    \/ FetchKey(MainThread, FewRegistrationResponses)
    \/ ReturnKey(MainThread)
    \/ Send(MainThread, FewOperationResponses)
    \/ Return(MainThread)

SpecPairs == Init /\ [][NextPairs]_vars

\* Two threads on one client, each running key-resolving operations.
ConcOps == {"get_job_status", "stop_strategy_algotrading"}
ConcModes == {BACKTESTING, REALTRADING}

NextConc ==
    \E t \in Threads :
        \/ CallKeyOp(t, ConcOps, {"S1"}, ConcModes)
        \/ GetKey(t)
        \/ FetchKey(t, FewRegistrationResponses)
        \/ ReturnKey(t)
        \/ Send(t, FewOperationResponses)
        \/ Return(t)

SpecConc == Init /\ [][NextConc]_vars

\* Direct calls of the dispatcher.
NextDispatch ==
    \/ CallSendRequest(MainThread)
    \/ Send(MainThread, AllResponses)
    \/ Return(MainThread)

SpecDispatch == Init /\ [][NextDispatch]_vars

\* -------------------------------------------------------------------------
\* Properties

\* The last round trip of thread t's invocation.
LastTrip(t) == sent[t][Len(sent[t])]
\* A round trip to the registration endpoint.
IsRegistration(trip) == trip.request.endpoint = RegistrationEndpoint
\* This step is thread t issuing a registration request.
Registers(t) ==
    /\ Len(sent'[t]) = Len(sent[t]) + 1
    /\ IsRegistration(sent'[t][Len(sent'[t])])
\* This step is thread t leaving the cache test of __get_key.
Resolves(t) == pc[t] = "get_key" /\ pc'[t] # "get_key"
\* What the cache holds for a pair, as dict.get reads it.
Cached(trading_type, strategy_code) == DictGet(KeyDict(trading_type), strategy_code)
\* Thread t's invocation of a facade operation has ended.
Ended(t) == pc[t] = "done" /\ call[t].op \in FacadeOps

\* C1 as stated: at most one registration request is ever issued for a
\* (strategy, trading type) pair, whatever the platform answered to the first.
C1_OneRegistrationEver ==
    [][\A t \in Threads :
          Registers(t) => registered[PairOf(call[t])] = "never"]_vars

\* C1, amended: a registration request is issued for a pair only while the
\* cache holds no key for it; once a key is cached it stays, and a key
\* resolution then returns that key with no request and no change of the cache.
C1_RegistrationOnlyWithoutKey ==
    [][/\ \A m \in TradingType, s \in Strategies :
             Cached(m, s) # None => Cached(m, s)' = Cached(m, s)
       /\ \A t \in Threads :
             LET m == call[t].trading_type
                 s == call[t].strategy_code
             IN  /\ Registers(t) => Cached(m, s) = None
                 /\ (Resolves(t) /\ Cached(m, s) # None) =>
                        /\ pc'[t] = "send"
                        /\ key'[t] = Cached(m, s)
                        /\ sent'[t] = sent[t]
                        /\ caches' = caches]_vars

\* C1 witness: a key-resolving operation has ended having sent its own
\* request alone, with the key an earlier invocation registered.
C1_Witness ==
    \E t \in Threads :
        /\ Ended(t) /\ call[t].op \in KeyOps
        /\ Len(sent[t]) = 1 /\ ~IsRegistration(sent[t][1])
        /\ key[t] \in Keys
        /\ Cached(call[t].trading_type, call[t].strategy_code) = key[t]

\* A registration round trip the platform answered with a key.
GotKey(trip) ==
    /\ IsRegistration(trip)
    /\ trip.answer.status_code = 200
    /\ IsJson(trip.answer.raw)
    /\ r_json(trip.answer.raw).key \in Keys
\* Thread t's invocation has registered its pair and was given a key.
RegisteredKey(t) == sent[t] # <<>> /\ GotKey(sent[t][1])

\* C2: operations running concurrently on one client, each the first use of
\* the same pair, issue at most one registration request for it and all use
\* the same key.
C2_ConcurrentFirstUseRegistersOnce ==
    \A t, u \in Threads :
        (t # u /\ call[t].op \in KeyOps /\ call[u].op \in KeyOps
              /\ PairOf(call[t]) = PairOf(call[u])) =>
            /\ ~(RegisteredKey(t) /\ RegisteredKey(u))
            /\ (key[t] # None /\ key[u] # None) => key[t] = key[u]

\* The answer of the last round trip of an ended invocation.
Answer(t) == LastTrip(t).answer

\* The class the elif chain of _send_request is documented to raise.
ErrorKind(status_code) ==
    CASE status_code = 400 -> "AlgoBullsAPIBadRequestException"
      [] status_code = 401 -> "AlgoBullsAPIUnauthorizedErrorException"
      [] status_code = 402 -> "AlgoBullsAPIInsufficientBalanceErrorException"
      [] status_code = 403 -> "AlgoBullsAPIForbiddenErrorException"
      [] status_code = 404 -> "AlgoBullsAPIResourceNotFoundErrorException"
      [] status_code = 500 -> "AlgoBullsAPIInternalServerErrorException"
      [] status_code = 504 -> "AlgoBullsAPIGatewayTimeoutErrorException"
      [] OTHER -> "AlgoBullsAPIBaseException"

\* Thread t's invocation raised the error of its last answer to the caller.
RaisedToCaller(t) ==
    /\ outcome[t].kind = "raise"
    /\ outcome[t].exc = ErrorKind(Answer(t).status_code)
    /\ outcome[t].status_code = Answer(t).status_code
\* Thread t's invocation returned None: no exception and no response body.
ReturnedNone(t) ==
    /\ outcome[t].kind = "return"
    /\ outcome[t].shape = "value"
    /\ outcome[t].value = NoneValue

\* C3: answered 403 or 402, create_strategy, start_strategy_algotrading and
\* stop_strategy_algotrading return None without raising and the eight
\* operations outside the swallow set raise the classified error; answered
\* any other error code, every operation raises it.
C3_SwallowSet ==
    \A t \in Threads :
        (Ended(t) /\ Answer(t).status_code # 200) =>
            IF Answer(t).status_code \in {402, 403}
            THEN /\ call[t].op \in {"create_strategy", "start_strategy_algotrading",
                                     "stop_strategy_algotrading"} => ReturnedNone(t)
                 /\ call[t].op \in {"get_job_status", "set_strategy_config", "get_logs",
                                     "get_reports", "delete_previous_trades",
                                     "search_instrument", "get_all_strategies",
                                     "get_strategy_details"} => RaisedToCaller(t)
            ELSE RaisedToCaller(t)

\* C3 witness: create_strategy answered 403 has returned None.
C3_Witness ==
    \E t \in Threads :
        /\ Ended(t) /\ call[t].op = "create_strategy"
        /\ Answer(t).status_code = 403
        /\ ReturnedNone(t)

RegistrationFailed(t) ==
    /\ Ended(t) /\ call[t].op \in KeyOps
    /\ Len(sent[t]) = 1 /\ IsRegistration(sent[t][1])
    /\ Answer(t).status_code # 200

\* C5 as stated: a registration request that fails with a classified error
\* raises that error to the caller of every key-resolving operation.
C5_RegistrationErrorRaised ==
    \A t \in Threads :
        (RegistrationFailed(t) /\ Answer(t).status_code \in ClassifiedCodes) =>
            RaisedToCaller(t)

\* C5, amended: the error of a failed registration is raised to the caller,
\* except that start_strategy_algotrading and stop_strategy_algotrading
\* return None when it is Forbidden (403) or InsufficientBalance (402).
C5_RegistrationErrorRaisedOrSwallowed ==
    \A t \in Threads :
        RegistrationFailed(t) =>
            IF /\ call[t].op \in {"start_strategy_algotrading",
                                   "stop_strategy_algotrading"}
               /\ Answer(t).status_code \in {402, 403}
            THEN ReturnedNone(t)
            ELSE RaisedToCaller(t)

\* C5 witness: stop_strategy_algotrading returned None on a registration
\* answered 402.
C5_Witness ==
    \E t \in Threads :
        /\ RegistrationFailed(t)
        /\ call[t].op = "stop_strategy_algotrading"
        /\ Answer(t).status_code = 402
        /\ ReturnedNone(t)

\* An answer on which __fetch_key raises: an error status, or a JSON body
\* that is no object.
FailedAnswer(r) ==
    \/ r.status_code # 200
    \/ IsJson(r.raw) /\ r_json(r.raw).type # "dict"

\* C6: a failed registration request leaves the three dicts as they were,
\* with no key for the failing pair, and the next key resolution for that
\* pair issues a registration request again.
C6_FailedRegistrationKeepsCache ==
    [][\A t \in Threads :
          /\ (Registers(t) /\ FailedAnswer(sent'[t][Len(sent'[t])].answer)) =>
                 /\ caches' = caches
                 /\ Cached(call[t].trading_type, call[t].strategy_code) = None
          /\ (Resolves(t) /\ registered[PairOf(call[t])] = "failed") =>
                 pc'[t] = "fetch_key"
          /\ (pc[t] = "fetch_key" /\ pc'[t] # "fetch_key") => Registers(t)]_vars

\* C6 witness: after a failed registration of one pair, with the key of
\* another pair still cached, the next resolution of the failing pair is
\* about to register it again.
C6_Witness ==
    \E t \in Threads :
        /\ pc[t] = "fetch_key"
        /\ registered[PairOf(call[t])] = "failed"
        /\ Cached(call[t].trading_type, call[t].strategy_code) = None
        /\ \E m \in TradingType :
              m # call[t].trading_type /\ Cached(m, call[t].strategy_code) \in Keys

\* Thread t's direct call of _send_request has ended.
Dispatched(t) == pc[t] = "done" /\ call[t].op = SendRequestOp

\* C7: for each of 400, 401, 402, 403, 404, 500 and 504 the dispatcher raises
\* the error kind named after the code, carrying the method, base_url +
\* endpoint, the status code and the raw body, whatever the flag.
C7_ClassifiedCodesRaise ==
    \A t \in Threads :
        (Dispatched(t) /\ Answer(t).status_code \in {400, 401, 402, 403, 404, 500, 504}) =>
            /\ outcome[t].kind = "raise"
            /\ outcome[t].exc = ErrorKind(Answer(t).status_code)
            /\ outcome[t].method = call[t].method
            /\ outcome[t].url = call[t].base_url \o call[t].endpoint
            /\ outcome[t].status_code = Answer(t).status_code
            /\ outcome[t].response = Answer(t).raw

\* C7 witness: a call with the flag off, to another base URL, answered 404
\* with a JSON body, has raised.
C7_Witness ==
    \E t \in Threads :
        /\ Dispatched(t)
        /\ ~call[t].raise_exception_unknown_status_code
        /\ call[t].base_url = OtherBaseUrl
        /\ Answer(t) = [status_code |-> 404, raw |-> BodyNoKey]
        /\ outcome[t].exc = "AlgoBullsAPIResourceNotFoundErrorException"

\* C8: for a status code other than 200 and the seven classified ones the
\* dispatcher raises the generic base error when the flag is on, and when
\* it is off returns the decoded body without raising.
C8_UnknownCodes ==
    \A t \in Threads :
        (Dispatched(t) /\ Answer(t).status_code \notin {200} \cup ClassifiedCodes) =>
            IF call[t].raise_exception_unknown_status_code
            THEN /\ outcome[t].kind = "raise"
                 /\ outcome[t].exc = "AlgoBullsAPIBaseException"
                 /\ outcome[t].status_code = Answer(t).status_code
            ELSE /\ outcome[t].kind = "return"
                 /\ IsJson(Answer(t).raw) => outcome[t].value = r_json(Answer(t).raw)

\* C9: a dispatcher call answered 200 never raises: it returns the decoded
\* JSON body or, when the body is not JSON, a dict whose 'response' is the
\* raw text.
C9_Status200NeverRaises ==
    \A t \in Threads :
        (Dispatched(t) /\ Answer(t).status_code = 200) =>
            /\ outcome[t].kind = "return"
            /\ outcome[t].shape = "value"
            /\ IF IsJson(Answer(t).raw)
               THEN outcome[t].value = r_json(Answer(t).raw)
               ELSE /\ outcome[t].value.type = "dict"
                    /\ outcome[t].value.response = Answer(t).raw

\* C9 witness: a call answered 200 with an HTML page has returned the
\* wrapper.
C9_Witness ==
    \E t \in Threads :
        /\ Dispatched(t)
        /\ Answer(t) = [status_code |-> 200, raw |-> BodyText]
        /\ outcome[t].value = JsonDict(None, BodyText)

\* The verb the registration protocol gives each trading type.
RegistrationVerb(trading_type) ==
    CASE trading_type = "REALTRADING" -> "post"
      [] trading_type = "PAPERTRADING" -> "put"
      [] trading_type = "BACKTESTING" -> "patch"

\* C10: every registration request goes to v2/portfolio/strategy with the
\* verb of the trading type being resolved and a body naming that strategy
\* and type; the key it returns is stored under that pair, every other pair
\* keeps its entry, and nothing else changes the dicts.
C10_RegistrationVerbAndSlot ==
    [][/\ \A t \in Threads :
             Registers(t) =>
                LET trip == sent'[t][Len(sent'[t])] IN
                /\ trip.request.method = RegistrationVerb(call[t].trading_type)
                /\ trip.request.url = SERVER_ENDPOINT \o "v2/portfolio/strategy"
                /\ trip.request.json_data =
                       [strategyId |-> call[t].strategy_code,
                        tradingType |-> call[t].trading_type]
                /\ \A m \in TradingType, s \in Strategies :
                      IF <<m, s>> = PairOf(call[t])
                      THEN GotKey(trip) => Cached(m, s)' = r_json(trip.answer.raw).key
                      ELSE /\ Cached(m, s)' = Cached(m, s)
                           /\ (s \in DOMAIN KeyDict(m))' = (s \in DOMAIN KeyDict(m))
       /\ caches' # caches => \E t \in Threads : Registers(t)]_vars

\* C10 witness: S2 has just been registered for PAPERTRADING with a PUT and
\* its key k2 sits beside the key k1 of S1, while S2 has no key in the
\* other two dicts.
C10_Witness ==
    \E t \in Threads :
        /\ pc[t] = "return_key"
        /\ PairOf(call[t]) = <<PAPERTRADING, "S2">>
        /\ LastTrip(t).request.method = "put"
        /\ key_papertrading = [S1 |-> "k1", S2 |-> "k2"]
        /\ Cached(BACKTESTING, "S2") = None
        /\ Cached(REALTRADING, "S2") = None

\* The operations that resolve no session key.
KeylessOps ==
    {"create_strategy", "update_strategy", "get_all_strategies",
     "get_strategy_details", "search_instrument", "delete_previous_trades"}

\* C11: an invocation of a facade operation issues at most one registration
\* request and at most one operation request, the registration first; no
\* request follows a failed one, so a failed registration ends the
\* invocation with the operation request unsent; an operation that needs no
\* key issues no registration request, has issued exactly one request when
\* it ends, and leaves the three key dicts as they were.
C11_OneFlowPerInvocation ==
    [][\A t \in Threads :
          LET trips == sent'[t]
              n == Len(sent'[t])
          IN  /\ n <= 2
              /\ n = 2 => IsRegistration(trips[1]) /\ ~IsRegistration(trips[2])
              /\ \A i \in 1..n : trips[i].answer.status_code # 200 => i = n
              /\ (n >= 1 /\ IsRegistration(trips[1]) /\ FailedAnswer(trips[1].answer)) =>
                     n = 1 /\ pc'[t] = "done"
              /\ sent'[t] # sent[t] =>
                     \/ sent'[t] = <<>>
                     \/ Len(sent'[t]) = Len(sent[t]) + 1 /\ pc[t] \in {"fetch_key", "send"}
              /\ call'[t].op \in KeylessOps =>
                     /\ \A i \in 1..n : ~IsRegistration(trips[i])
                     /\ pc'[t] = "done" => n = 1
                     /\ caches' = caches
              /\ (call'[t].op \in KeyOps /\ pc'[t] = "done") => n >= 1]_vars

\* C11 witness: set_strategy_config has ended after its registration request,
\* answered with a key, and then its own request, answered 500 and not sent
\* again.
C11_Witness ==
    \E t \in Threads :
        /\ Ended(t) /\ call[t].op = "set_strategy_config"
        /\ Len(sent[t]) = 2
        /\ GotKey(sent[t][1])
        /\ ~IsRegistration(sent[t][2])
        /\ sent[t][2].answer.status_code = 500
        /\ outcome[t].kind = "raise"

====
